---- MODULE Spec2Model ----
(***************************************************************************)
(* dev-horoscope (src/main.py): analyze_code reads a Python file, counts   *)
(* lines, comment lines and TODO lines, parses the text and measures the   *)
(* FunctionDef nodes of the tree; generate_horoscope turns the metrics     *)
(* into four or five canned messages; main wires both to the command line. *)
(*                                                                         *)
(* Representation.                                                         *)
(*  - A text is a sequence of one-character strings; NL is "\n".           *)
(*  - A Python float that is a quotient of two integers is kept as the     *)
(*    exact fraction [num, den]; comparisons cross-multiply.  For line     *)
(*    counts below 2^47 the correctly rounded quotient compares with the   *)
(*    literals 0.05, 0.20, 15 and 50 exactly as the fraction does.         *)
(*  - A syntax tree is a sequence of nodes, node 1 the Module, every other *)
(*    node naming its parent (an earlier node).                            *)
(*  - Message texts are ASCII: the source's ellipsis is written "..." and  *)
(*    its bullet "*".                                                      *)
(***************************************************************************)
EXTENDS Integers, Sequences, FiniteSets, TLC

VARIABLES
    argv,            \* sys.argv
    has_end_lineno,  \* whether the interpreter's ast nodes carry end_lineno
    pc,              \* position of main
    source,          \* analyze_code: the text read from the file
    tree,            \* analyze_code: result of ast.parse
    metrics,         \* the dict analyze_code returned
    exc,             \* exception that left analyze_code
    horoscope,       \* what generate_horoscope returned
    stdout,          \* what main printed
    exit_code        \* process exit status

vars == <<argv, has_end_lineno, pc, source, tree, metrics, exc, horoscope, stdout, exit_code>>

None == "None"

\* a name main has not assigned yet
Unbound == [unbound |-> TRUE]

\* the exit status: none while running, <<n>> after exit n
Running == <<>>
Exited(n) == <<n>>

-----------------------------------------------------------------------------
(* Bounds of the input space                                               *)

MaxLines == 3      \* lines per sample file
MaxNodes == 3      \* syntax-tree nodes below the Module node
MaxDen   == 2      \* denominators of avg_func_length in free-standing records
Radius   == 1      \* how far around each threshold free-standing records go

-----------------------------------------------------------------------------
(* Text: characters, lines, str methods                                    *)

NL == "\n"

Whitespace == {" ", "\t", NL}

\* str.upper on the characters the sample lines use
UpperChar(c) ==
    CASE c = "t" -> "T"
      [] c = "o" -> "O"
      [] c = "d" -> "D"
      [] c = "x" -> "X"
      [] OTHER   -> c

upper(s) == [i \in 1..Len(s) |-> UpperChar(s[i])]

RECURSIVE lstrip(_)
lstrip(s) ==
    IF s # <<>> /\ Head(s) \in Whitespace THEN lstrip(Tail(s)) ELSE s

RECURSIVE rstrip(_)
rstrip(s) ==
    IF s # <<>> /\ s[Len(s)] \in Whitespace
    THEN rstrip(SubSeq(s, 1, Len(s) - 1))
    ELSE s

strip(s) == rstrip(lstrip(s))

startswith(s, prefix) ==
    /\ Len(s) >= Len(prefix)
    /\ SubSeq(s, 1, Len(prefix)) = prefix

\* the `in` operator on strings
contains(s, sub) ==
    \E i \in 0..(Len(s) - Len(sub)) : SubSeq(s, i + 1, i + Len(sub)) = sub

\* str.splitlines: split at line ends, no empty last line after a final one
RECURSIVE splitlines_from(_, _)
splitlines_from(s, cur) ==
    IF s = <<>>
    THEN IF cur = <<>> THEN <<>> ELSE <<cur>>
    ELSE IF Head(s) = NL
         THEN <<cur>> \o splitlines_from(Tail(s), <<>>)
         ELSE splitlines_from(Tail(s), Append(cur, Head(s)))

splitlines(s) == splitlines_from(s, <<>>)

RECURSIVE sum(_)
sum(seq) == IF seq = <<>> THEN 0 ELSE Head(seq) + sum(Tail(seq))

HASH == <<"#">>
TODO == <<"T", "O", "D", "O">>

is_comment_line(line) == startswith(strip(line), HASH)
is_todo_line(line)    == contains(upper(line), TODO)

-----------------------------------------------------------------------------
(* Floats as exact fractions                                               *)

Frac(n, d) == [num |-> n, den |-> d]
FromInt(n) == Frac(n, 1)

Lt(a, b) == a.num * b.den < b.num * a.den
Le(a, b) == a.num * b.den <= b.num * a.den
Gt(a, b) == Lt(b, a)
EqNum(a, b) == a.num * b.den = b.num * a.den

\* A call either returns a value or raises
Return(v) == [exc |-> None, value |-> v]
Raise(e)  == [exc |-> e, value |-> None]
IsRaise(r) == "exc" \in DOMAIN r /\ r.exc # None

\* Python's true division of two ints
TrueDiv(a, b) == IF b = 0 THEN Raise("ZeroDivisionError") ELSE Frac(a, b)

-----------------------------------------------------------------------------
(* Syntax trees                                                            *)

KFunctionDef      == "FunctionDef"
KAsyncFunctionDef == "AsyncFunctionDef"
KLambda           == "Lambda"
KClassDef         == "ClassDef"
KModule           == "Module"

ModuleNode == [kind |-> KModule, parent |-> 0, lineno |-> 0, end_lineno |-> 0]

\* iter_child_nodes: the children of node i, in field order
RECURSIVE children_from(_, _, _)
children_from(t, i, j) ==
    IF j > Len(t) THEN <<>>
    ELSE (IF t[j].parent = i THEN <<j>> ELSE <<>>) \o children_from(t, i, j + 1)

iter_child_nodes(t, i) == children_from(t, i, 1)

\* ast.walk: breadth-first from the root, a deque of nodes still to visit
RECURSIVE walk_from(_, _)
walk_from(t, todo) ==
    IF todo = <<>> THEN <<>>
    ELSE <<Head(todo)>> \o walk_from(t, Tail(todo) \o iter_child_nodes(t, Head(todo)))

\* walk that stops at the module's own statements
walk_body(t) == <<1>> \o iter_child_nodes(t, 1)

walk(t) == walk_from(t, <<1>>)

isinstance_FunctionDef(node) == node.kind = KFunctionDef

\* hasattr(func, "lineno") and hasattr(func, "end_lineno")
has_position(node, endl) == endl

-----------------------------------------------------------------------------
(* analyze_code                                                            *)

func_defs_of(t) ==
    SelectSeq([k \in 1..Len(walk(t)) |-> t[walk(t)[k]]], isinstance_FunctionDef)

\* func_lengths_of with the operands of the subtraction exchanged
func_lengths_swapped(t, endl) ==
    LET with_pos(f) == has_position(f, endl)
        fs == SelectSeq(func_defs_of(t), with_pos)
    IN  [k \in 1..Len(fs) |-> fs[k].lineno - fs[k].end_lineno + 1]

func_lengths_of(t, endl) ==
    LET with_pos(f) == has_position(f, endl)
        fs == SelectSeq(func_defs_of(t), with_pos)
    IN  [k \in 1..Len(fs) |-> fs[k].end_lineno - fs[k].lineno + 1]

\* avg_of with floor division
avg_of_floordiv(func_lengths) ==
    IF func_lengths # <<>>
    THEN FromInt(sum(func_lengths) \div Len(func_lengths))
    ELSE FromInt(0)

avg_of(func_lengths) ==
    IF func_lengths # <<>>
    THEN TrueDiv(sum(func_lengths), Len(func_lengths))
    ELSE FromInt(0)

\* the dict returned for a text that parsed to tree t
analyze_result(src, t, endl) ==
    LET lines == splitlines(src)
    IN  [ total_lines     |-> Len(lines),
          comment_lines   |-> Len(SelectSeq(lines, is_comment_line)),
          todo_lines      |-> Len(SelectSeq(lines, is_todo_line)),
          num_functions   |-> Len(func_defs_of(t)),
          avg_func_length |-> avg_of(func_lengths_of(t, endl)) ]

\* read_text(encoding="utf-8") on the file the path names
read_text(f) ==
    CASE f.kind = "directory" -> Raise("IsADirectoryError")
      [] f.kind = "binary"    -> Raise("UnicodeDecodeError")
      [] OTHER                -> Return(f.text)

\* ast.parse: p is what the parser makes of the text
ast_parse(src, p) == IF p.ok THEN Return(p.tree) ELSE Raise("SyntaxError")

analyze_code(f, p, endl) ==
    LET text == read_text(f)
    IN  IF IsRaise(text) THEN text
        ELSE LET parsed == ast_parse(text.value, p)
             IN  IF IsRaise(parsed) THEN parsed
                 ELSE Return(analyze_result(text.value, parsed.value, endl))

-----------------------------------------------------------------------------
(* generate_horoscope                                                      *)

A1 == "The stars whisper: your future holds... documentation. Consider leaving clues for your teammates."
A2 == "You comment when it matters. A balanced mind in a chaotic codebase."
A3 == "Your comments shine brighter than your code. Future you will be very grateful."
B1 == "The cosmos sees one giant script. Perhaps it is time to split logic into functions."
B2 == "Few but focused functions. You seek clarity over fragmentation."
B3 == "Many small functions: you embrace modularity. The gods of refactoring approve."
C1 == "Some functions carry heavy destiny. Consider granting them smaller responsibilities."
C2 == "Short functions, sharp focus. Your future PRs will be easy to review."
C3 == "Your functions have a healthy length. The balance of Zen and practicality is strong in you."
D1 == "No TODOs in sight. Either your work is complete, or you fear the truth."
D2 == "A few TODOs mark the path ahead. Future sprints already know their purpose."
D3 == "Many TODOs gather like clouds. This is a sign to schedule a refactoring ritual."
E1 == "A small file with big potential. Every line matters."
E2 == "Your file walks the middle path: not too small, not too sprawling."
E3 == "The constellations warn of a mighty file. Perhaps some pieces long to be modules."

BULLET == "* "

\* comment_ratio without the guard on an empty file
comment_ratio_unguarded(lines, comments) == TrueDiv(comments, lines)

comment_ratio(lines, comments) ==
    IF lines > 0 THEN TrueDiv(comments, lines) ELSE Frac(0, 1)

\* comment_messages with the first threshold inclusive
comment_messages_inclusive(ratio) ==
    IF Le(ratio, Frac(5, 100)) THEN <<A1>>
    ELSE IF Lt(ratio, Frac(20, 100)) THEN <<A2>>
    ELSE <<A3>>

comment_messages(ratio) ==
    IF Lt(ratio, Frac(5, 100)) THEN <<A1>>
    ELSE IF Lt(ratio, Frac(20, 100)) THEN <<A2>>
    ELSE <<A3>>

function_messages(funcs) ==
    IF funcs = 0 THEN <<B1>>
    ELSE IF funcs < 5 THEN <<B2>>
    ELSE <<B3>>

\* length_messages without the branch that skips an average of zero
length_messages_no_skip(avg_len) ==
    IF Gt(avg_len, FromInt(50)) THEN <<C1>>
    ELSE IF Lt(FromInt(0), avg_len) /\ Le(avg_len, FromInt(15)) THEN <<C2>>
    ELSE <<C3>>

\* length_messages with the upper threshold inclusive
length_messages_inclusive(avg_len) ==
    IF Le(FromInt(50), avg_len) THEN <<C1>>
    ELSE IF Lt(FromInt(0), avg_len) /\ Le(avg_len, FromInt(15)) THEN <<C2>>
    ELSE IF EqNum(avg_len, FromInt(0)) THEN <<>>
    ELSE <<C3>>

length_messages(avg_len) ==
    IF Gt(avg_len, FromInt(50)) THEN <<C1>>
    ELSE IF Lt(FromInt(0), avg_len) /\ Le(avg_len, FromInt(15)) THEN <<C2>>
    ELSE IF EqNum(avg_len, FromInt(0)) THEN <<>>
    ELSE <<C3>>

todo_messages(todos) ==
    IF todos = 0 THEN <<D1>>
    ELSE IF todos < 5 THEN <<D2>>
    ELSE <<D3>>

\* size_messages with the upper threshold inclusive
size_messages_inclusive(lines) ==
    IF lines < 50 THEN <<E1>>
    ELSE IF lines >= 500 THEN <<E3>>
    ELSE <<E2>>

size_messages(lines) ==
    IF lines < 50 THEN <<E1>>
    ELSE IF lines > 500 THEN <<E3>>
    ELSE <<E2>>

\* "\n".join(f"* {msg}" for msg in messages): one <<bullet, msg>> per line
join_bullets(messages) == [i \in 1..Len(messages) |-> <<BULLET, messages[i]>>]

generate_horoscope(m) ==
    LET ratio == comment_ratio(m.total_lines, m.comment_lines)
    IN  IF IsRaise(ratio) THEN ratio
        ELSE Return(join_bullets(
                 comment_messages(ratio)
                 \o function_messages(m.num_functions)
                 \o length_messages(m.avg_func_length)
                 \o todo_messages(m.todo_lines)
                 \o size_messages(m.total_lines)))

-----------------------------------------------------------------------------
(* Inputs                                                                  *)

\* sample lines: an indented comment, a comment with a mixed-case marker,
\* code that mentions the marker before a trailing comment, a blank line
SampleLines ==
    { <<" ", "#", "x">>,
      <<"#", "T", "o", "D", "o">>,
      <<"x", " ", "t", "o", "d", "o", "#">>,
      <<>> }

SeqsUpTo(S, n) == UNION { [1..k -> S] : k \in 0..n }

RECURSIVE join_lines(_)
join_lines(ls) ==
    IF ls = <<>> THEN <<>>
    ELSE IF Len(ls) = 1 THEN ls[1]
    ELSE ls[1] \o <<NL>> \o join_lines(Tail(ls))

\* texts: up to MaxLines sample lines, with or without a final line end
Texts ==
    { join_lines(ls) \o (IF nl THEN <<NL>> ELSE <<>>) :
        ls \in SeqsUpTo(SampleLines, MaxLines), nl \in BOOLEAN }

Files ==
    { [kind |-> "directory", text |-> <<>>], [kind |-> "binary", text |-> <<>>] }
    \cup { [kind |-> "text", text |-> t] : t \in Texts }

Node(k, p, l, e) == [kind |-> k, parent |-> p, lineno |-> l, end_lineno |-> e]

\* kind and line span of the nodes the sample trees are made of
NodeShapes ==
    { <<KFunctionDef, 1, 1>>, <<KFunctionDef, 1, 2>>, <<KFunctionDef, 2, 2>>,
      <<KFunctionDef, 1, 3>>, <<KFunctionDef, 2, 3>>, <<KFunctionDef, 3, 3>>,
      <<KAsyncFunctionDef, 1, 2>>, <<KClassDef, 1, 3>>, <<KLambda, 2, 2>> }

\* what the grammar allows below a node: nothing but lambdas inside a lambda,
\* a nested node within its parent's lines, a statement below its header
Nests(child, par) ==
    \/ par.kind = KModule
    \/ /\ par.kind = KLambda => child.kind = KLambda
       /\ par.lineno <= child.lineno /\ child.end_lineno <= par.end_lineno
       /\ child.kind # KLambda => par.lineno < child.lineno

\* statements of one block follow each other: a new statement starts below
\* the statements the tree already has in that block
Follows(t, child) ==
    \A j \in 2..Len(t) :
        (t[j].parent = child.parent /\ t[j].kind # KLambda /\ child.kind # KLambda)
            => t[j].end_lineno < child.lineno

RECURSIVE TreesOf(_)
TreesOf(n) ==
    IF n = 0 THEN { <<ModuleNode>> }
    ELSE { Append(x[1], Node(x[3][1], x[2], x[3][2], x[3][3])) :
             x \in { y \in TreesOf(n - 1) \X (1..n) \X NodeShapes :
                       LET child == Node(y[3][1], y[2], y[3][2], y[3][3])
                       IN  Nests(child, y[1][y[2]]) /\ Follows(y[1], child) } }

Trees == UNION { TreesOf(n) : n \in 0..MaxNodes }

\* a line that holds code: neither blank nor a comment
is_code_line(line) == strip(line) # <<>> /\ ~is_comment_line(line)

\* a tree the parser can return for a text: every node lies on lines the
\* text has and starts on a line of code
Fits(t, text) ==
    LET ls == splitlines(text)
    IN  \A i \in 2..Len(t) :
            /\ t[i].end_lineno <= Len(ls)
            /\ is_code_line(ls[t[i].lineno])

\* what ast.parse can make of a text: a tree that fits it, or, when the text
\* has code at all, a syntax error
ParseOutcomes(text) ==
    { [ok |-> TRUE, tree |-> t] : t \in { u \in Trees : Fits(u, text) } }
    \cup (IF \E k \in 1..Len(splitlines(text)) : is_code_line(splitlines(text)[k])
          THEN { [ok |-> FALSE, tree |-> <<>>] }
          ELSE {})

Near(n) == { v \in (n - Radius)..(n + Radius) : v >= 0 }

\* free-standing metrics records, around every threshold of the generator
TotalVals   == {0} \cup Near(20) \cup Near(40) \cup Near(50) \cup Near(500)
CommentVals == 0..(4 + Radius)
TodoVals    == {0, 1} \cup Near(5)
FuncVals    == {0, 1} \cup Near(5)
AvgVals ==
    { Frac(x[1], x[2]) : x \in
        { y \in (0..(50 * MaxDen + Radius)) \X (1..MaxDen) :
            y[1] \in {0} \cup Near(15 * y[2]) \cup Near(50 * y[2]) } }

Records ==
    [ total_lines     : TotalVals,
      comment_lines   : CommentVals,
      todo_lines      : TodoVals,
      num_functions   : FuncVals,
      avg_func_length : AvgVals ]

-----------------------------------------------------------------------------
(* main                                                                    *)

Init ==
    /\ argv \in { <<"main.py">>, <<"main.py", "file.py">> }
    /\ has_end_lineno \in BOOLEAN
    /\ pc = "main"
    /\ source = <<>>
    /\ tree = <<>>
    /\ metrics = Unbound
    /\ exc = None
    /\ horoscope = <<>>
    /\ stdout = <<>>
    /\ exit_code = Running

\* argument and path checks
MainArgs ==
    /\ pc = "main"
    /\ IF Len(argv) < 2
       THEN /\ stdout' = Append(stdout, <<"Usage: python main.py <path-to-python-file>">>)
            /\ exit_code' = Exited(1)
            /\ pc' = "exited"
       ELSE \E exists \in BOOLEAN :
              IF ~exists
              THEN /\ stdout' = Append(stdout, <<"File not found: ", argv[2]>>)
                   /\ exit_code' = Exited(1)
                   /\ pc' = "exited"
              ELSE /\ pc' = "analyze"
                   /\ UNCHANGED <<stdout, exit_code>>
    /\ UNCHANGED <<argv, has_end_lineno, source, tree, metrics, exc, horoscope>>

\* metrics = analyze_code(path), except SyntaxError: report and exit
MainAnalyze ==
    /\ pc = "analyze"
    /\ \E f \in Files : \E p \in ParseOutcomes(f.text) :
         LET r == analyze_code(f, p, has_end_lineno)
         IN  /\ source' = IF IsRaise(read_text(f)) THEN source ELSE f.text
             /\ tree' = IF IsRaise(read_text(f)) \/ ~p.ok THEN tree ELSE p.tree
             /\ IF ~IsRaise(r)
                THEN /\ metrics' = r.value
                     /\ pc' = "print"
                     /\ UNCHANGED <<exc, stdout, exit_code>>
                ELSE /\ exc' = r.exc
                     /\ UNCHANGED metrics
                     /\ IF r.exc = "SyntaxError"
                        THEN /\ stdout' = Append(stdout,
                                  <<"Could not parse file due to syntax error: ", r.exc>>)
                             /\ exit_code' = Exited(1)
                             /\ pc' = "exited"
                        ELSE \* not caught: traceback, the interpreter exits 1
                             /\ pc' = "crashed"
                             /\ exit_code' = Exited(1)
                             /\ UNCHANGED stdout
    /\ UNCHANGED <<argv, has_end_lineno, horoscope>>

Header ==
    << <<"Analyzing: ", argv[2]>>, <<>>,
       <<"Your developer horoscope:">>, <<"--------------------------">> >>

\* the four header prints, then print(generate_horoscope(metrics))
MainPrint ==
    /\ pc = "print"
    /\ LET r == generate_horoscope(metrics)
       IN  IF IsRaise(r)
           THEN /\ exc' = r.exc
                /\ stdout' = stdout \o Header
                /\ exit_code' = Exited(1)
                /\ pc' = "crashed"
                /\ UNCHANGED horoscope
           ELSE /\ horoscope' = r.value
                /\ stdout' = stdout \o Header \o r.value
                /\ exit_code' = Exited(0)
                /\ pc' = "done"
                /\ UNCHANGED exc
    /\ UNCHANGED <<argv, has_end_lineno, source, tree, metrics>>

Next == MainArgs \/ MainAnalyze \/ MainPrint

Spec == Init /\ [][Next]_vars

\* generate_horoscope on its own: any metrics record, then the call
InitGen ==
    /\ argv = <<"main.py", "file.py">>
    /\ has_end_lineno = TRUE
    /\ pc = "print"
    /\ source = <<>>
    /\ tree = <<>>
    /\ metrics \in Records
    /\ exc = None
    /\ horoscope = <<>>
    /\ stdout = <<>>
    /\ exit_code = Running

NextGen == MainPrint

SpecGen == InitGen /\ [][NextGen]_vars

-----------------------------------------------------------------------------
(* Properties                                                              *)

AGroup == {A1, A2, A3}
BGroup == {B1, B2, B3}
CGroup == {C1, C2, C3}
DGroup == {D1, D2, D3}
EGroup == {E1, E2, E3}

\* the messages of a horoscope, bullets removed
Msgs(h) == [i \in 1..Len(h) |-> h[i][2]]

\* the messages of h that belong to group G
Part(h, G) == LET in_group(m) == m \in G IN SelectSeq(Msgs(h), in_group)

Generated == pc = "done"

AvgIsZero(m) == m.avg_func_length.num = 0

Zeroed(m, f) ==
    [m EXCEPT ![f] = IF f = "avg_func_length" THEN Frac(0, 1) ELSE 0]

\* the groups whose rule does not read field f
GroupsNotReading(f) ==
    CASE f = "total_lines"     -> {BGroup, CGroup, DGroup}
      [] f = "comment_lines"   -> {BGroup, CGroup, DGroup, EGroup}
      [] f = "todo_lines"      -> {AGroup, BGroup, CGroup, EGroup}
      [] f = "num_functions"   -> {AGroup, CGroup, DGroup, EGroup}
      [] f = "avg_func_length" -> {AGroup, BGroup, DGroup, EGroup}

\* changing field f alone leaves the message of every group that does not
\* read f as it is
Ignored(f) ==
    LET r == generate_horoscope(Zeroed(metrics, f))
    IN  /\ ~IsRaise(r)
        /\ \A G \in GroupsNotReading(f) : Part(r.value, G) = Part(horoscope, G)

\* C2: generate never fails, also on total_lines = 0, and returns one A
\* message, one B message, at most one C message, one D message and one E
\* message in that order; each group's message is a function of that group's
\* own fields alone.
C2_TotalOrdered ==
    /\ pc # "crashed"
    /\ pc = "print" => ENABLED MainPrint
    /\ Generated =>
         LET ms == Msgs(horoscope)
             n  == Len(ms)
         IN  /\ n \in {4, 5}
             /\ ms[1] \in AGroup
             /\ ms[2] \in BGroup
             /\ n = 5 => ms[3] \in CGroup
             /\ ms[n - 1] \in DGroup
             /\ ms[n] \in EGroup
             /\ \A f \in DOMAIN metrics : Ignored(f)

C2_Witness ==
    /\ Generated
    /\ metrics.total_lines = 0
    /\ metrics.comment_lines > 0
    /\ Len(horoscope) = 5

\* C3: A1 exactly when comment_lines/total_lines < 0.05 (the ratio being 0
\* when total_lines = 0), A2 exactly when 0.05 <= ratio < 0.20, A3 exactly
\* when ratio >= 0.20; 2 of 40 gives A2 and 4 of 20 gives A3.
C3_CommentRatio ==
    Generated =>
        LET c == metrics.comment_lines
            t == metrics.total_lines
            a == Msgs(horoscope)[1]
        IN  /\ a = A1 <=> (t = 0 \/ 20 * c < t)
            /\ a = A2 <=> (t > 0 /\ 20 * c >= t /\ 5 * c < t)
            /\ a = A3 <=> (t > 0 /\ 5 * c >= t)
            /\ (t = 40 /\ c = 2) => a = A2
            /\ (t = 20 /\ c = 4) => a = A3

C3_Witness ==
    /\ Generated
    /\ metrics.total_lines = 40
    /\ metrics.comment_lines = 2
    /\ Msgs(horoscope)[1] = A2

\* C4: C1 exactly when avg_func_length > 50, C2 exactly when 0 < avg <= 15,
\* C3 exactly when 15 < avg <= 50, nothing exactly when avg = 0; an average
\* of exactly 50 gives C3 and one of exactly 15 gives C2.
C4_AverageLength ==
    Generated =>
        LET s == metrics.avg_func_length.num
            n == metrics.avg_func_length.den
            c == Part(horoscope, CGroup)
        IN  /\ c = <<C1>> <=> s > 50 * n
            /\ c = <<C2>> <=> (0 < s /\ s <= 15 * n)
            /\ c = <<C3>> <=> (15 * n < s /\ s <= 50 * n)
            /\ c = <<>>   <=> s = 0

C4_Witness ==
    /\ Generated
    /\ metrics.avg_func_length = Frac(100, 2)
    /\ Part(horoscope, CGroup) = <<C3>>

\* C5: E1 exactly when total_lines < 50, E2 exactly when 50 <= total_lines
\* <= 500, E3 exactly when total_lines > 500; 50 and 500 both give E2.
C5_TotalLines ==
    Generated =>
        LET t == metrics.total_lines
            e == Msgs(horoscope)[Len(horoscope)]
        IN  /\ e = E1 <=> t < 50
            /\ e = E2 <=> (50 <= t /\ t <= 500)
            /\ e = E3 <=> t > 500

C5_Witness ==
    /\ Generated
    /\ metrics.total_lines = 500
    /\ Msgs(horoscope)[Len(horoscope)] = E2

\* analyze_code returned a record to main
Returned == pc \in {"print", "done"}

\* C6: for every text that parses, every field of the record is >= 0,
\* comment_lines <= total_lines and todo_lines <= total_lines.
C6_FieldRanges ==
    Returned =>
        /\ metrics.total_lines >= 0
        /\ metrics.comment_lines >= 0
        /\ metrics.todo_lines >= 0
        /\ metrics.num_functions >= 0
        /\ metrics.avg_func_length.den > 0
        /\ metrics.avg_func_length.num >= 0
        /\ metrics.comment_lines <= metrics.total_lines
        /\ metrics.todo_lines <= metrics.total_lines

C6_Witness ==
    /\ Returned
    /\ metrics.total_lines >= 2
    /\ metrics.comment_lines >= 1
    /\ metrics.todo_lines = metrics.total_lines
    /\ metrics.num_functions >= 1
    /\ metrics.avg_func_length.num > metrics.avg_func_length.den

\* the FunctionDef nodes of a tree, and those whose span is collected
FunctionDefNodes(t) == { i \in 1..Len(t) : t[i].kind = KFunctionDef }
SpanNodes(t) == IF has_end_lineno THEN FunctionDefNodes(t) ELSE {}

RECURSIVE SpanTotal(_, _)
SpanTotal(t, S) ==
    IF S = {} THEN 0
    ELSE LET i == CHOOSE j \in S : TRUE
         IN  (t[i].end_lineno - t[i].lineno + 1) + SpanTotal(t, S \ {i})

\* C7: num_functions = 0 implies avg_func_length = 0; avg_func_length is the
\* arithmetic mean of the inclusive spans end_lineno - lineno + 1 of the
\* function definitions whose span was collected, and 0 exactly when none was.
C7_AverageOfSpans ==
    Returned =>
        LET avg == metrics.avg_func_length
            S   == SpanNodes(tree)
        IN  /\ metrics.num_functions = 0 => avg.num = 0
            /\ S # {} => avg.num * Cardinality(S) = avg.den * SpanTotal(tree, S)
            /\ avg.num = 0 <=> S = {}

C7_Witness ==
    /\ Returned
    /\ metrics.num_functions = 2
    /\ metrics.avg_func_length = Frac(3, 2)

\* C8 as stated: a text that does not parse makes analyze fail with the parse
\* error and return no record; the parse error is the only failure analyze
\* lets out; the wrapper then exits 1 and neither calls generate nor prints a
\* horoscope.
C8_AsStated ==
    /\ exc # None => exc = "SyntaxError"
    /\ exc = "SyntaxError" =>
          /\ metrics = Unbound
          /\ pc = "exited"
          /\ exit_code = Exited(1)
          /\ horoscope = <<>>
          /\ Len(stdout) = 1

\* the part of C8 about a text that does not parse, on its own
C8_SyntaxErrorPath ==
    exc = "SyntaxError" =>
        /\ metrics = Unbound
        /\ pc = "exited"
        /\ exit_code = Exited(1)
        /\ horoscope = <<>>
        /\ Len(stdout) = 1

\* C9: num_functions is the number of FunctionDef nodes anywhere in the tree,
\* nested ones at every depth included, Lambda and AsyncFunctionDef nodes not.
C9_CountsFunctionDefs ==
    Returned => metrics.num_functions = Cardinality(FunctionDefNodes(tree))

C9_Witness ==
    /\ Returned
    /\ metrics.num_functions = 1
    /\ \E i \in 2..Len(tree) :
          /\ tree[i].kind = KFunctionDef
          /\ tree[i].parent # 1
          /\ tree[tree[i].parent].kind = KAsyncFunctionDef

\* C10 as stated: for every record analyze returns, num_functions > 0 implies
\* avg_func_length >= 1, so the horoscope has a C message exactly when
\* num_functions > 0: 5 messages with a function, 4 without, and B1 never
\* together with a C message.
C10_AsStated ==
    /\ Returned =>
          (metrics.num_functions > 0
              => metrics.avg_func_length.num >= metrics.avg_func_length.den)
    /\ Generated =>
          /\ Len(Part(horoscope, CGroup)) = 1 <=> metrics.num_functions > 0
          /\ Len(horoscope) = IF metrics.num_functions > 0 THEN 5 ELSE 4
          /\ ~(Part(horoscope, BGroup) = <<B1>> /\ Part(horoscope, CGroup) # <<>>)

\* what holds of the pipeline instead: the C message goes with the collected
\* spans, not with the count
C10_WithSpans ==
    /\ Returned =>
          (SpanNodes(tree) # {}
              <=> metrics.avg_func_length.num >= metrics.avg_func_length.den)
    /\ Generated =>
          /\ Len(Part(horoscope, CGroup)) = 1 <=> SpanNodes(tree) # {}
          /\ Len(horoscope) = IF SpanNodes(tree) # {} THEN 5 ELSE 4
          /\ ~(Part(horoscope, BGroup) = <<B1>> /\ Part(horoscope, CGroup) # <<>>)

====
